---- MODULE Spec2Model ----
(***************************************************************************)
(* State-machine model of governance/data_adapter.py: the DataAdapter      *)
(* contract as implemented by MongoDBAdapter and PostgreSQLAdapter.        *)
(*                                                                         *)
(* The pymongo / psycopg2 objects the adapters hold are modelled as        *)
(* "handles": numbered native sessions with an open flag and a count of    *)
(* the native close() calls issued on them.  The server's data is the      *)
(* variable store.                                                         *)
(***************************************************************************)
EXTENDS Integers, Sequences, FiniteSets, TLC

\* ------------------------------------------------------------------ bounds
MaxHandles == 2     \* native sessions created in one run
MaxCloses == 2      \* native close() calls issued on one handle
MaxBatch == 5       \* operations in one bulk_write batch

\* ------------------------------------------------------------- documents
Fields == {"_id", "a", "b"}

\* The marker for "this key is not in the dict" ( _id values are integers,
\* the other values strings ).
Absent(k) == IF k = "_id" THEN 0 ELSE "absent"

Doc(id, a, b) == [k \in Fields |-> IF k = "_id" THEN id ELSE IF k = "a" THEN a ELSE b]

\* The empty dict {} (an empty filter, an empty patch).
Empty == Doc(0, "absent", "absent")

\* ObjectIds the driver generates for documents inserted without an _id.
OidBase == 100
ObjectId(n) == OidBase + n

\* A filter {k: v, ...} matches a document that has every key with that value.
Matches(doc, filter) == \A k \in Fields : filter[k] = Absent(k) \/ doc[k] = filter[k]

\* An update without '$set': the document becomes the update document and
\* keeps its _id only.
ReplaceFields(doc, update) == [k \in Fields |-> IF k = "_id" THEN doc[k] ELSE update[k]]

\* {'$set': update}: the named fields are replaced, the others kept.
SetFields(doc, update) == [k \in Fields |-> IF update[k] = Absent(k) THEN doc[k] ELSE update[k]]

Ids(coll) == {coll[i]["_id"] : i \in DOMAIN coll}

FirstMatch(coll, filter) ==
    LET hits == {i \in DOMAIN coll : Matches(coll[i], filter)}
    IN  IF hits = {} THEN 0 ELSE CHOOSE i \in hits : \A j \in hits : i <= j

RemoveAt(coll, i) == SubSeq(coll, 1, i - 1) \o SubSeq(coll, i + 1, Len(coll))

\* ---------------------------------------------------- connection strings
\* A connection string is a sequence of tokens; "/" and "?" are the two
\* separators connect() splits on, every other token is text without them.
URI_DB == <<"mongodb:", "/", "/", "host", "/", "testdb">>
URI_HTTP == <<"http:", "/", "/", "host", "/", "testdb">>
URI_PG == <<"postgresql:", "/", "/", "host", "/", "testdb">>

\* With a database name, with options after it, with a trailing slash, with
\* no path at all, and with another scheme.
MongoConnStrings ==
    {URI_DB,
     <<"mongodb:", "/", "/", "host", "/", "testdb", "?", "w=1">>,
     <<"mongodb:", "/", "/", "host", "/">>,
     <<"mongodb:", "/", "/", "host">>,
     URI_HTTP}
PgConnStrings == {URI_PG, URI_HTTP}

\* s.split(sep)[-1]
SplitLast(s, sep) ==
    LET at == {i \in DOMAIN s : s[i] = sep}
    IN  IF at = {} THEN s
        ELSE SubSeq(s, (CHOOSE i \in at : \A j \in at : j <= i) + 1, Len(s))

\* s.split(sep)[0]
SplitFirst(s, sep) ==
    LET at == {i \in DOMAIN s : s[i] = sep}
    IN  IF at = {} THEN s
        ELSE SubSeq(s, 1, (CHOOSE i \in at : \A j \in at : i <= j) - 1)

\* db_name = connection_string.split('/')[-1].split('?')[0]
DbName(cs) == SplitFirst(SplitLast(cs, "/"), "?")

\* MongoClient(connection_string): the driver parses "scheme://..." and raises
\* InvalidURI unless the scheme is mongodb.  It opens no socket: an unreachable
\* host is not noticed here.
MongoClientAccepts(cs) == Len(cs) >= 4 /\ cs[1] = "mongodb:" /\ cs[2] = "/" /\ cs[3] = "/"

\* psycopg2.connect(connection_string): parses the DSN and opens the socket.
PgAccepts(cs) == Len(cs) >= 4 /\ cs[1] = "postgresql:" /\ cs[2] = "/" /\ cs[3] = "/"

DbNames == {DbName(cs) : cs \in (MongoConnStrings \cup PgConnStrings)} \ {<<>>}

\* ------------------------------------------------------------------ state
VARIABLES
    kind,               \* the adapter class get_adapter constructed
    client,             \* MongoDBAdapter.client: 0 is None, else a handle
    db,                 \* MongoDBAdapter.db: [client, name]; client 0 is None
    connection_string,  \* MongoDBAdapter.connection_string: <<>> is None
    connection,         \* PostgreSQLAdapter.connection: 0 is None
    cursor,             \* PostgreSQLAdapter.cursor: 0 is None, else its connection
    handles,            \* the native sessions created so far
    store,              \* per database, the collection's documents in natural order
    phase,              \* the adapter's lifecycle state as the contract names it
    created,            \* the collections of the database created by name
    scan,               \* a mask_field call in progress: its cursor and counters
    last                \* the last call: what was called, where, and its outcome

vars == <<kind, client, db, connection_string, connection, cursor, handles,
          store, phase, created, scan, last>>

NoDb == [client |-> 0, name |-> <<>>]

\* What a caller can observe of the sessions: open or closed, not how often
\* close() was called.
SessionStates(hs) == [h \in DOMAIN hs |-> <<hs[h].open, hs[h].cursor>>]

NewHandle(cur) == [open |-> TRUE, closes |-> 0, cursor |-> cur]

\* DocumentSchema.fields: per field of a document other than _id its
\* FieldSchema; type "none" stands for a field the mapping does not have.
SchemaFields == Fields \ {"_id"}
NoField == [type |-> "none", nullable |-> FALSE]
NoSchema == [k \in SchemaFields |-> NoField]

\* No mask_field call is in progress.
NoScan ==
    [active |-> FALSE, docs |-> <<>>, i |-> 0, masked_count |-> 0, field |-> "none",
     fn |-> "none", changed |-> 0, writes |-> 0]

\* The record of a call, before its outcome is filled in.
Call(op, up) ==
    [op |-> op, again |-> (last.op = op), arg |-> <<>>, phase |-> phase, up |-> up,
     raised |-> "none", session |-> 0, ret |-> "None", flag |-> FALSE,
     effect |-> FALSE, id |-> 0, inserted |-> 0, updated |-> 0, deleted |-> 0,
     batch |-> <<>>, pre |-> <<>>, n |-> 0, size |-> 0, schema |-> NoSchema,
     field |-> "none", fn |-> "none", docs |-> <<>>, filter |-> Empty,
     update |-> Empty, doc |-> Empty, limit |-> 0, skip |-> 0, name |-> "none",
     none |-> FALSE]

NoCall ==
    [op |-> "none", again |-> FALSE, arg |-> <<>>, phase |-> "new", up |-> TRUE,
     raised |-> "none", session |-> 0, ret |-> "None", flag |-> FALSE,
     effect |-> FALSE, id |-> 0, inserted |-> 0, updated |-> 0, deleted |-> 0,
     batch |-> <<>>, pre |-> <<>>, n |-> 0, size |-> 0, schema |-> NoSchema,
     field |-> "none", fn |-> "none", docs |-> <<>>, filter |-> Empty,
     update |-> Empty, doc |-> Empty, limit |-> 0, skip |-> 0, name |-> "none",
     none |-> FALSE]

\* ------------------------------------------------------------- __init__
\* get_adapter(database_type) returns adapter_class(): every field None.
Init ==
    /\ kind \in {"mongodb", "postgresql"}
    /\ client = 0
    /\ db = NoDb
    /\ connection_string = <<>>
    /\ connection = 0
    /\ cursor = 0
    /\ handles = <<>>
    /\ store = [n \in DbNames |-> <<>>]
    /\ phase = "new"
    /\ created = {}
    /\ scan = NoScan
    /\ last = NoCall

\* The lifecycle state after a connect call.
PhaseAfterConnect(raised) ==
    IF raised = "none" THEN "connected"
    ELSE IF phase = "connected" THEN "connected"
    ELSE "connect_failed"

\* -------------------------------------------------------------- connect
\* MongoDBAdapter.connect: the outcome of the try block.
\*   step 0: MongoClient(...) raised; step 1: the client was assigned and the
\*   db name was empty; step 2: all three fields assigned.
MongoConnectStep(cs) ==
    IF ~MongoClientAccepts(cs) THEN 0
    ELSE IF DbName(cs) = <<>> THEN 1
    ELSE 2

MongoConnectRaised(cs) ==
    CASE MongoConnectStep(cs) = 0 -> "InvalidURI"
      [] MongoConnectStep(cs) = 1 -> "ValueError"
      [] OTHER -> "none"

MongoConnect(cs, up) ==
    /\ kind = "mongodb"
    /\ LET step == MongoConnectStep(cs)
           h == Len(handles) + 1
           raised == MongoConnectRaised(cs)
       IN  /\ step >= 1 => Len(handles) < MaxHandles
           /\ handles' = IF step >= 1 THEN Append(handles, NewHandle("none")) ELSE handles
           /\ client' = IF step >= 1 THEN h ELSE client
           /\ db' = IF step = 2 THEN [client |-> h, name |-> DbName(cs)] ELSE db
           /\ connection_string' = IF step = 2 THEN cs ELSE connection_string
           /\ phase' = PhaseAfterConnect(raised)
           /\ last' = [Call("connect", up) EXCEPT !.arg = cs, !.raised = raised,
                                              !.effect = (step >= 1)]
    /\ UNCHANGED <<created, scan, kind, connection, cursor, store>>

\* PostgreSQLAdapter.connect
PgConnectRaised(cs, up) == IF PgAccepts(cs) /\ up THEN "none" ELSE "OperationalError"

PgConnect(cs, up) ==
    /\ kind = "postgresql"
    /\ LET raised == PgConnectRaised(cs, up)
           ok == raised = "none"
           h == Len(handles) + 1
       IN  /\ ok => Len(handles) < MaxHandles
           /\ handles' = IF ok THEN Append(handles, NewHandle("open")) ELSE handles
           /\ connection' = IF ok THEN h ELSE connection
           /\ cursor' = IF ok THEN h ELSE cursor
           /\ phase' = PhaseAfterConnect(raised)
           /\ last' = [Call("connect", up) EXCEPT !.arg = cs, !.raised = raised,
                                              !.effect = ok,
                                              !.session = IF ok THEN h ELSE 0]
    /\ UNCHANGED <<created, scan, kind, client, db, connection_string, store>>

\* The caller's connection string, and whether the server answers at this call.
Connect ==
    \E up \in BOOLEAN :
        \/ \E cs \in MongoConnStrings : MongoConnect(cs, up)
        \/ \E cs \in PgConnStrings : PgConnect(cs, up)

\* ----------------------------------------------------------- disconnect
\* The native close(): closing a closed session is accepted by both drivers.
NativeClose(hs, h) ==
    [hs EXCEPT ![h] = [open |-> FALSE, closes |-> @.closes + 1,
                       cursor |-> IF @.cursor = "none" THEN "none" ELSE "closed"]]

\* disconnect without its "if self.client" test: None has no close().
MongoDisconnectUnguarded ==
    IF client = 0
    THEN [raised |-> "AttributeError", handles |-> handles]
    ELSE [raised |-> "none", handles |-> NativeClose(handles, client)]

\* MongoDBAdapter.disconnect: "if self.client: self.client.close()".
\* The result is the exception raised ("none") and the handles afterwards.
MongoDisconnectResult ==
    IF client /= 0
    THEN [raised |-> "none", handles |-> NativeClose(handles, client)]
    ELSE [raised |-> "none", handles |-> handles]

\* PostgreSQLAdapter.disconnect: cursor.close() and connection.close(), each
\* behind its own "if".
PgDisconnectResult ==
    LET afterCursor ==
            IF cursor /= 0
            THEN [handles EXCEPT ![cursor].cursor = "closed"]
            ELSE handles
    IN  IF connection /= 0
        THEN [raised |-> "none", handles |-> NativeClose(afterCursor, connection)]
        ELSE [raised |-> "none", handles |-> afterCursor]

Disconnect ==
    /\ LET r == IF kind = "mongodb" THEN MongoDisconnectResult ELSE PgDisconnectResult
       IN  /\ \A h \in DOMAIN handles : r.handles[h].closes <= MaxCloses
           /\ handles' = r.handles
           /\ last' = [Call("disconnect", TRUE) EXCEPT
                          !.raised = r.raised,
                          !.effect = (SessionStates(r.handles) /= SessionStates(handles))]
    /\ phase' = "disconnected"
    /\ UNCHANGED <<created, scan, kind, client, db, connection_string, connection, cursor, store>>

\* -------------------------------------------------- reaching the server
\* What happens when a MongoDBAdapter method sends a command through self.db.
\* Nothing in the adapter looks at the lifecycle: self.db is used as it is.
\*   self.db is None            -> the attribute access or subscript raises;
\*   its client was closed      -> depending on the driver release the client
\*                                 re-opens itself (reopen) or raises
\*                                 InvalidOperation;
\*   the server does not answer -> ServerSelectionTimeoutError;
\*   otherwise the command runs on that client's session.
MongoSend(onNone, reopen, up) ==
    LET h == db.client
    IN  IF h = 0 THEN [raised |-> onNone, session |-> 0, handles |-> handles]
        ELSE IF ~handles[h].open /\ ~reopen
        THEN [raised |-> "InvalidOperation", session |-> 0, handles |-> handles]
        ELSE LET hs == [handles EXCEPT ![h].open = TRUE]
             IN  IF ~up
                 THEN [raised |-> "ServerSelectionTimeoutError", session |-> 0,
                       handles |-> hs]
                 ELSE [raised |-> "none", session |-> h, handles |-> hs]

\* What happens when a PostgreSQLAdapter method calls self.cursor.execute.
PgExecute(up) ==
    IF cursor = 0 THEN [raised |-> "AttributeError", session |-> 0]
    ELSE IF handles[cursor].cursor /= "open" \/ ~handles[cursor].open
    THEN [raised |-> "InterfaceError", session |-> 0]
    ELSE IF ~up THEN [raised |-> "OperationalError", session |-> 0]
    ELSE [raised |-> "none", session |-> cursor]

\* --------------------------------------------------------- health_check
\* health_check without its except clause: the probe's exception escapes.
HealthCheckUncaught(probeRaised) ==
    [raised |-> probeRaised, ret |-> IF probeRaised = "none" THEN "bool" ELSE "None",
     flag |-> probeRaised = "none"]

\* try: <probe>; return True / except Exception: return False
HealthCheckResult(probeRaised) ==
    [raised |-> "none", ret |-> "bool", flag |-> probeRaised = "none"]

MongoHealthCheck(up) ==
    /\ kind = "mongodb"
    /\ \E reopen \in BOOLEAN :
         LET probe == MongoSend("AttributeError", reopen, up)
             r == HealthCheckResult(probe.raised)
         IN  /\ handles' = probe.handles
             /\ last' = [Call("health_check", up) EXCEPT
                            !.raised = r.raised, !.ret = r.ret, !.flag = r.flag,
                            !.session = probe.session,
                            !.effect = (probe.handles /= handles)]
    /\ UNCHANGED <<created, scan, kind, client, db, connection_string, connection, cursor,
                   store, phase>>

PgHealthCheck(up) ==
    /\ kind = "postgresql"
    /\ LET probe == PgExecute(up)
           r == HealthCheckResult(probe.raised)
       IN  last' = [Call("health_check", up) EXCEPT
                       !.raised = r.raised, !.ret = r.ret, !.flag = r.flag,
                       !.session = probe.session]
    /\ UNCHANGED <<created, scan, kind, client, db, connection_string, connection, cursor,
                   handles, store, phase>>

HealthCheck == \E up \in BOOLEAN : MongoHealthCheck(up) \/ PgHealthCheck(up)

\* ----------------------------------------------------------- insert_one
\* The server's insert: an _id already in the collection is a duplicate key.
NativeInsert(coll, doc) ==
    IF doc["_id"] \in Ids(coll)
    THEN [raised |-> "DuplicateKeyError", coll |-> coll]
    ELSE [raised |-> "none", coll |-> Append(coll, doc)]

\* The driver gives a document without _id a new ObjectId before sending it:
\* one no document of the collection has.
NextOid(coll) ==
    LET used == {i \in Ids(coll) : i > OidBase}
    IN  IF used = {} THEN ObjectId(1)
        ELSE (CHOOSE i \in used : \A j \in used : j <= i) + 1

WithId(doc, coll) == IF doc["_id"] = 0 THEN [doc EXCEPT !["_id"] = NextOid(coll)] ELSE doc


MongoInsertOne(document, up) ==
    /\ kind = "mongodb"
    /\ \E reopen \in BOOLEAN :
         LET send == MongoSend("TypeError", reopen, up)
             doc == WithId(document, store[db.name])
             ins == IF send.raised = "none"
                    THEN NativeInsert(store[db.name], doc)
                    ELSE [raised |-> send.raised, coll |-> <<>>]
         IN  /\ handles' = send.handles
             /\ store' = IF ins.raised = "none"
                         THEN [store EXCEPT ![db.name] = ins.coll]
                         ELSE store
             /\ last' = [Call("insert_one", up) EXCEPT
                            !.raised = ins.raised,
                            !.session = send.session,
                            !.ret = IF ins.raised = "none" THEN "id" ELSE "None",
                            !.id = IF ins.raised = "none" THEN doc["_id"] ELSE 0,
                            !.doc = document,
                            !.effect = (ins.raised = "none")]
    /\ UNCHANGED <<created, scan, kind, client, db, connection_string, connection, cursor, phase>>

\* PostgreSQLAdapter.insert_one is "pass": it returns None and does nothing.
PgInsertOne(document, up) ==
    /\ kind = "postgresql"
    /\ last' = [Call("insert_one", up) EXCEPT !.doc = document]
    /\ UNCHANGED <<created, scan, kind, client, db, connection_string, connection, cursor,
                   handles, store, phase>>

InsertOne ==
    \E document \in {Doc(1, "x", "k")}, up \in BOOLEAN :
        MongoInsertOne(document, up) \/ PgInsertOne(document, up)

\* ----------------------------------------------------------- bulk_write
\* An element of "operations" is a dict; keys is the set of its keys, and
\* doc / filter / update are what stands under them.
InsertOp(d) == [keys |-> {"insert_one"}, doc |-> d, filter |-> Empty, update |-> Empty]
UpdateOp(f, u) == [keys |-> {"update_one"}, doc |-> Empty, filter |-> f, update |-> u]
DeleteOp(f) == [keys |-> {"delete_one"}, doc |-> Empty, filter |-> f, update |-> Empty]
OtherOp == [keys |-> {"replace_one"}, doc |-> Empty, filter |-> Empty, update |-> Empty]

\* The if / elif chain of the loop: one native request per recognised dict,
\* nothing for a dict with none of the three keys.
Translate(op) ==
    IF "insert_one" \in op.keys
    THEN <<[type |-> "InsertOne", doc |-> op.doc, filter |-> Empty, update |-> Empty]>>
    ELSE IF "update_one" \in op.keys
    THEN <<[type |-> "UpdateOne", doc |-> Empty, filter |-> op.filter, update |-> op.update]>>
    ELSE IF "delete_one" \in op.keys
    THEN <<[type |-> "DeleteOne", doc |-> Empty, filter |-> op.filter, update |-> Empty]>>
    ELSE <<>>

RECURSIVE Requests(_)
Requests(operations) ==
    IF operations = <<>> THEN <<>>
    ELSE Translate(Head(operations)) \o Requests(Tail(operations))

OfType(reqs, t) == SelectSeq(reqs, LAMBDA r : r.type = t)

\* The requests regrouped: all inserts, then all updates, then all deletes.
PartitionedOps(operations) ==
    LET reqs == Requests(operations)
    IN  OfType(reqs, "InsertOne") \o OfType(reqs, "UpdateOne") \o OfType(reqs, "DeleteOne")

\* mongo_ops: the requests in the order the loop appended them.
MongoOps(operations) == Requests(operations)

\* delete_many: every document the filter matches is removed.
NativeDeleteMany(coll, req) ==
    LET rest == SelectSeq(coll, LAMBDA d : ~Matches(d, req.filter))
    IN  [raised |-> "none", coll |-> rest, n |-> Len(coll) - Len(rest)]

\* One request on the server: the collection afterwards, and n, what it adds
\* to the inserted / modified / deleted count.
NativeDeleteOne(coll, req) ==
    LET i == FirstMatch(coll, req.filter)
    IN  IF i = 0 THEN [raised |-> "none", coll |-> coll, n |-> 0]
        ELSE [raised |-> "none", coll |-> RemoveAt(coll, i), n |-> 1]

\* update_many in the place of update_one: every match is updated.
NativeUpdateEvery(coll, req) ==
    LET new == [i \in DOMAIN coll |->
                   IF Matches(coll[i], req.filter) THEN SetFields(coll[i], req.update)
                   ELSE coll[i]]
    IN  [raised |-> "none", coll |-> new,
         n |-> Cardinality({i \in DOMAIN coll : new[i] /= coll[i]})]

NativeUpdateOne(coll, req) ==
    LET i == FirstMatch(coll, req.filter)
    IN  IF i = 0 THEN [raised |-> "none", coll |-> coll, n |-> 0]
        ELSE LET new == SetFields(coll[i], req.update)
             IN  [raised |-> "none", coll |-> [coll EXCEPT ![i] = new],
                  n |-> IF new = coll[i] THEN 0 ELSE 1]

NativeInsertOne(coll, req) ==
    LET r == NativeInsert(coll, WithId(req.doc, coll))
    IN  [raised |-> r.raised, coll |-> r.coll, n |-> IF r.raised = "none" THEN 1 ELSE 0]

NativeRequest(coll, req) ==
    CASE req.type = "InsertOne" -> NativeInsertOne(coll, req)
      [] req.type = "UpdateOne" -> NativeUpdateOne(coll, req)
      [] req.type = "DeleteOne" -> NativeDeleteOne(coll, req)

Count(acc, type, n) ==
    CASE type = "InsertOne" -> [acc EXCEPT !.inserted = @ + n]
      [] type = "UpdateOne" -> [acc EXCEPT !.updated = @ + n]
      [] type = "DeleteOne" -> [acc EXCEPT !.deleted = @ + n]

Zero == [inserted |-> 0, updated |-> 0, deleted |-> 0]

\* Collection.bulk_write(requests) with the default ordered=True: the requests
\* run one after the other; the first that fails ends the batch with
\* BulkWriteError, what ran before it stays, what follows is not run.
RECURSIVE NativeBulkWrite(_, _, _)
NativeBulkWrite(coll, reqs, acc) ==
    IF reqs = <<>> THEN [raised |-> "none", coll |-> coll, counts |-> acc]
    ELSE LET r == NativeRequest(coll, Head(reqs))
         IN  IF r.raised /= "none"
             THEN [raised |-> "BulkWriteError", coll |-> coll, counts |-> acc]
             ELSE NativeBulkWrite(r.coll, Tail(reqs), Count(acc, Head(reqs).type, r.n))

\* What bulk_write gives back when the native call raised: the exception
\* leaves the method, no dict is built.
AfterNativeError(raised, counts) ==
    [raised |-> raised, ret |-> "None", counts |-> Zero, coll |-> <<>>, sent |-> FALSE]

\* The returned dict with two of the driver's counters read into the wrong keys.
AfterNativeOkSwapped(counts) ==
    [raised |-> "none", ret |-> "counts",
     counts |-> [inserted |-> counts.updated, updated |-> counts.inserted,
                 deleted |-> counts.deleted],
     coll |-> <<>>, sent |-> FALSE]

\* The dict built from result.inserted_count, modified_count, deleted_count.
AfterNativeOk(counts) ==
    [raised |-> "none", ret |-> "counts", counts |-> counts, coll |-> <<>>, sent |-> FALSE]

\* The driver release only matters for a client that was closed.
ReopenChoices == IF db.client /= 0 /\ ~handles[db.client].open THEN BOOLEAN ELSE {FALSE}

\* MongoDBAdapter.bulk_write: what the call does to the collection coll
\* of a server it reached (sent) or did not reach.
BulkWriteOutcome(operations, coll, sendRaised) ==
    LET mongo_ops == MongoOps(operations)
    IN  IF mongo_ops = <<>>
        THEN [raised |-> "none", ret |-> "counts", counts |-> Zero, coll |-> coll,
              sent |-> FALSE]
        ELSE IF sendRaised /= "none"
        THEN [AfterNativeError(sendRaised, Zero) EXCEPT !.coll = coll, !.sent = FALSE]
        ELSE LET native == NativeBulkWrite(coll, mongo_ops, Zero)
             IN  IF native.raised = "none"
                 THEN [AfterNativeOk(native.counts) EXCEPT !.coll = native.coll, !.sent = TRUE]
                 ELSE [AfterNativeError(native.raised, native.counts) EXCEPT
                          !.coll = native.coll, !.sent = TRUE]

MongoBulkWrite(operations, up) ==
    /\ kind = "mongodb"
    /\ \E reopen \in ReopenChoices :
       \E send \in {MongoSend("TypeError", reopen, up)} :
       \E coll \in {IF db.client = 0 THEN <<>> ELSE store[db.name]} :
       \E r \in {BulkWriteOutcome(operations, coll, send.raised)} :
          /\ handles' = IF MongoOps(operations) /= <<>> THEN send.handles ELSE handles
          /\ store' = IF r.sent THEN [store EXCEPT ![db.name] = r.coll] ELSE store
          /\ last' = [Call("bulk_write", up) EXCEPT
                         !.raised = r.raised, !.ret = r.ret,
                         !.session = IF r.sent THEN send.session ELSE 0,
                         !.inserted = r.counts.inserted,
                         !.updated = r.counts.updated,
                         !.deleted = r.counts.deleted,
                         !.effect = (r.coll /= coll),
                         !.batch = operations, !.pre = coll]
    /\ UNCHANGED <<created, scan, kind, client, db, connection_string, connection, cursor, phase>>

\* PostgreSQLAdapter.bulk_write is "pass": it returns None and does nothing.
PgBulkWrite(operations, up) ==
    /\ kind = "postgresql"
    /\ last' = [Call("bulk_write", up) EXCEPT !.batch = operations]
    /\ UNCHANGED <<created, scan, kind, client, db, connection_string, connection, cursor,
                   handles, store, phase>>

\* The batches a caller submits.
DocX(id) == Doc(id, "x", "k")
SetY == Doc(0, "y", "absent")
WhereX == Doc(0, "x", "absent")

BatchOps ==
    {InsertOp(DocX(1)), InsertOp(DocX(2)), InsertOp(DocX(3)), UpdateOp(WhereX, SetY),
     DeleteOp(WhereX), OtherOp}

RECURSIVE SeqsUpTo(_, _)
SeqsUpTo(S, n) ==
    IF n = 0 THEN {<<>>}
    ELSE LET shorter == SeqsUpTo(S, n - 1)
         IN  shorter \cup {Append(q, x) : q \in shorter, x \in S}


BulkWrite ==
    \E operations \in SeqsUpTo(BatchOps, MaxBatch), up \in BOOLEAN :
        MongoBulkWrite(operations, up) \/ PgBulkWrite(operations, up)

\* The collections a connected adapter can find on the server: documents
\* with distinct _id, in any natural order.
StoredDocs == {Doc(id, a, "k") : id \in {1, 2}, a \in {"x", "y"}}

Collections ==
    {c \in SeqsUpTo(StoredDocs, 2) : \A i, j \in DOMAIN c : i /= j => c[i]["_id"] /= c[j]["_id"]}

\* The state after get_adapter(...) and one successful connect, the server
\* holding any collection (the PostgreSQL stubs never look at it).
ConnectedHaving(colls, names) ==
    /\ kind \in {"mongodb", "postgresql"}
    /\ client = IF kind = "mongodb" THEN 1 ELSE 0
    /\ db = IF kind = "mongodb" THEN [client |-> 1, name |-> DbName(URI_DB)] ELSE NoDb
    /\ connection_string = IF kind = "mongodb" THEN URI_DB ELSE <<>>
    /\ connection = IF kind = "postgresql" THEN 1 ELSE 0
    /\ cursor = IF kind = "postgresql" THEN 1 ELSE 0
    /\ handles = <<NewHandle(IF kind = "mongodb" THEN "none" ELSE "open")>>
    /\ \E c \in (IF kind = "mongodb" THEN colls ELSE {<<>>}) :
           store = [n \in DbNames |-> IF n = DbName(URI_DB) THEN c ELSE <<>>]
    /\ phase = "connected"
    /\ created \in (IF kind = "mongodb" THEN names ELSE {{}})
    /\ scan = NoScan
    /\ last = [NoCall EXCEPT !.op = "connect", !.effect = TRUE,
                             !.arg = IF kind = "mongodb" THEN URI_DB ELSE URI_PG,
                             !.session = IF kind = "mongodb" THEN 0 ELSE 1]

\* The same with no collection created by name.
ConnectedWith(colls) == ConnectedHaving(colls, {{}})


\* ----------------------------------------------------------- get_schema
\* Values of the fields a and b are tokens, one or two per Python class:
\* "x" "y" "k" "*" and "" are str, "null" is None, "i0" "i7" int (0 and 7),
\* "true" "false" bool, "f1" float, "{}" an empty dict, "[]" an empty list,
\* "oid" a bson ObjectId, "date" a datetime.
PyClass(v) ==
    CASE v \in {"true", "false"} -> "bool"
      [] v \in {"i0", "i7"} -> "int"
      [] v = "f1" -> "float"
      [] v = "{}" -> "dict"
      [] v = "[]" -> "list"
      [] v = "oid" -> "ObjectId"
      [] v = "date" -> "datetime"
      [] v = "null" -> "NoneType"
      [] OTHER -> "str"

\* isinstance(value, cls): bool is a subclass of int.
IsInstance(v, cls) == PyClass(v) = cls \/ (cls = "int" /\ PyClass(v) = "bool")

\* An isinstance chain with one numeric branch: isinstance(value, (int, float)).
TypeTagNumeric(v) ==
    IF IsInstance(v, "bool") THEN {"boolean"}
    ELSE IF IsInstance(v, "int") \/ IsInstance(v, "float") THEN {"float"}
    ELSE IF IsInstance(v, "str") THEN {"string"}
    ELSE IF IsInstance(v, "dict") THEN {"object"}
    ELSE IF IsInstance(v, "list") THEN {"array"}
    ELSE IF IsInstance(v, "ObjectId") THEN {"objectid"}
    ELSE {}

\* The if / elif chain of get_schema: the tags one value adds to "types"
\* (none for a value no branch takes).
TypeTag(v) ==
    IF IsInstance(v, "bool") THEN {"boolean"}
    ELSE IF IsInstance(v, "int") THEN {"integer"}
    ELSE IF IsInstance(v, "float") THEN {"float"}
    ELSE IF IsInstance(v, "str") THEN {"string"}
    ELSE IF IsInstance(v, "dict") THEN {"object"}
    ELSE IF IsInstance(v, "list") THEN {"array"}
    ELSE IF IsInstance(v, "ObjectId") THEN {"objectid"}
    ELSE {}

\* The tags the chain can add.
Tags == {"boolean", "integer", "float", "string", "object", "array", "objectid"}

\* doc.keys()
Keys(doc) == {k \in Fields : doc[k] /= Absent(k)}

Min(m, n) == IF m <= n THEN m ELSE n

Abs(n) == IF n < 0 THEN 0 - n ELSE n

\* list(find().limit(n)): the driver sends limit abs(n) when n is not 0 and
\* no limit at all when it is 0; the server answers in natural order.
Limit(coll, n) == IF n = 0 THEN coll ELSE SubSeq(coll, 1, Min(Abs(n), Len(coll)))

\* The set "types" of a field after the loop over the sample.
FieldTypes(sample_docs, k) ==
    UNION {TypeTag(sample_docs[i][k]) : i \in {j \in DOMAIN sample_docs : k \in Keys(sample_docs[j])}}

\* nullable = field_name not in doc, assigned on every record: the last
\* record decides.
NullableLastRecord(sample_docs, k) == k \notin Keys(sample_docs[Len(sample_docs)])

\* "nullable" after the loop: set once a record lacks the field.
Nullable(sample_docs, k) == \E i \in DOMAIN sample_docs : k \notin Keys(sample_docs[i])

\* list(types)[0] if types else 'unknown': a set of str iterates in the order
\* of the process's string hashes, so the first element is any element.
FieldTypeChoices(types) == IF types = {} THEN {"unknown"} ELSE types

\* The field mappings get_schema can build from a sample.
FieldInfos(sample_docs) ==
    LET all_field_names == UNION {Keys(sample_docs[i]) : i \in DOMAIN sample_docs}
        Possible(k) == IF k \in all_field_names
                       THEN FieldTypeChoices(FieldTypes(sample_docs, k))
                       ELSE {"none"}
    IN  {[k \in SchemaFields |->
            IF k \in all_field_names
            THEN [type |-> pick[k], nullable |-> Nullable(sample_docs, k)]
            ELSE NoField] :
         pick \in {f \in [SchemaFields -> Tags \cup {"unknown", "none"}] :
                      \A k \in SchemaFields : f[k] \in Possible(k)}}

\* MongoDBAdapter.get_schema.
MongoGetSchema(sample_size, up) ==
    /\ kind = "mongodb"
    /\ \E reopen \in ReopenChoices :
       \E send \in {MongoSend("TypeError", reopen, up)} :
       \E coll \in {IF db.client = 0 THEN <<>> ELSE store[db.name]} :
       \E sample_docs \in {IF send.raised = "none" THEN Limit(coll, sample_size) ELSE <<>>} :
       \E field_info \in (IF send.raised /= "none" \/ sample_docs = <<>>
                          THEN {NoSchema} ELSE FieldInfos(sample_docs)) :
          /\ handles' = send.handles
          /\ last' = [Call("get_schema", up) EXCEPT
                         !.raised = send.raised, !.session = send.session,
                         !.ret = IF send.raised = "none" THEN "schema" ELSE "None",
                         !.schema = field_info, !.size = sample_size,
                         !.n = Len(sample_docs), !.docs = sample_docs, !.pre = coll]
    /\ UNCHANGED <<created, scan, kind, client, db, connection_string, connection, cursor,
                   store, phase>>

\* PostgreSQLAdapter.get_schema is "pass": it returns None and does nothing.
PgGetSchema(sample_size, up) ==
    /\ kind = "postgresql"
    /\ last' = [Call("get_schema", up) EXCEPT !.size = sample_size]
    /\ UNCHANGED <<created, scan, kind, client, db, connection_string, connection, cursor,
                   handles, store, phase>>

\* The sample sizes a caller passes: sample_size is an int nothing validates.
MaxSampleSize == 2

GetSchema ==
    \E sample_size \in ((0 - 1) .. MaxSampleSize), up \in BOOLEAN :
        MongoGetSchema(sample_size, up) \/ PgGetSchema(sample_size, up)

\* The collections get_schema finds: up to MaxDocs documents, the i-th with
\* _id i, field a of any class or missing, field b a str or missing.
MaxDocs == 2

TypedColls(A, B) ==
    UNION {{[i \in 1 .. n |-> Doc(i, ab[i][1], ab[i][2])] : ab \in [1 .. n -> A \X B]} :
           n \in 0 .. MaxDocs}

InitSchema ==
    ConnectedWith(TypedColls(
        {"absent", "x", "null", "i7", "true", "f1", "{}", "[]", "oid", "date"},
        {"absent", "k"}))

\* ----------------------------------------------------------- mask_field
\* bool(value): None, "", 0, False and empty containers are falsy.
Truthy(v) == v \notin {"null", "", "i0", "false", "{}", "[]"}

\* The mask_fn callables a caller passes: "redact" returns "*" for every
\* value, "strict" does the same but raises ValueError on the value "y".
MaskFns == {"redact", "strict"}

MaskFn(fn, v) ==
    IF fn = "strict" /\ v = "y" THEN [raised |-> "ValueError", value |-> v]
    ELSE [raised |-> "none", value |-> "*"]

\* replace_one({'_id': id}, {field: value}): the document becomes the
\* replacement, keeping its _id only.
MaskReplace(coll, id, field, value) ==
    LET i == FirstMatch(coll, [Empty EXCEPT !["_id"] = id])
    IN  IF i = 0 THEN coll
        ELSE [coll EXCEPT ![i] = [Empty EXCEPT !["_id"] = id, ![field] = value]]

\* update_one({'_id': doc['_id']}, {'$set': {field: masked_value}})
MaskUpdate(coll, id, field, value) ==
    NativeUpdateOne(coll, [filter |-> [Empty EXCEPT !["_id"] = id],
                           update |-> [Empty EXCEPT ![field] = value]]).coll

\* The loop of mask_field over docs, the records the cursor delivers, from
\* the i-th on: coll is the collection on the server, masked_count the count
\* so far.  An exception of mask_fn leaves the loop and the method.
RECURSIVE MaskLoop(_, _, _, _, _, _)
MaskLoop(docs, i, coll, masked_count, field, fn) ==
    IF i > Len(docs) THEN [raised |-> "none", coll |-> coll, masked_count |-> masked_count]
    ELSE LET doc == docs[i]
         IN  IF field \in Keys(doc) /\ Truthy(doc[field])
             THEN LET m == MaskFn(fn, doc[field])
                  IN  IF m.raised /= "none"
                      THEN [raised |-> m.raised, coll |-> coll,
                            masked_count |-> masked_count]
                      ELSE MaskLoop(docs, i + 1,
                                    MaskUpdate(coll, doc["_id"], field, m.value),
                                    masked_count + 1, field, fn)
             ELSE MaskLoop(docs, i + 1, coll, masked_count, field, fn)

\* MongoDBAdapter.mask_field.  The cursor delivers the collection as it was
\* when the loop began (a collection of this size arrives in one batch).
MongoMaskField(field, fn, up) ==
    /\ kind = "mongodb"
    /\ \E reopen \in ReopenChoices :
       \E send \in {MongoSend("TypeError", reopen, up)} :
       \E coll \in {IF db.client = 0 THEN <<>> ELSE store[db.name]} :
       \E r \in {IF send.raised = "none" THEN MaskLoop(coll, 1, coll, 0, field, fn)
                 ELSE [raised |-> send.raised, coll |-> coll, masked_count |-> 0]} :
          /\ handles' = send.handles
          /\ store' = IF send.raised = "none" THEN [store EXCEPT ![db.name] = r.coll]
                      ELSE store
          /\ last' = [Call("mask_field", up) EXCEPT
                         !.raised = r.raised, !.session = send.session,
                         !.ret = IF r.raised = "none" THEN "int" ELSE "None",
                         !.n = IF r.raised = "none" THEN r.masked_count ELSE 0,
                         !.field = field, !.fn = fn, !.pre = coll,
                         !.effect = (r.coll /= coll)]
    /\ UNCHANGED <<created, scan, kind, client, db, connection_string, connection, cursor, phase>>

\* PostgreSQLAdapter.mask_field is "pass": it returns None and does nothing.
PgMaskField(field, fn, up) ==
    /\ kind = "postgresql"
    /\ last' = [Call("mask_field", up) EXCEPT !.field = field, !.fn = fn]
    /\ UNCHANGED <<created, scan, kind, client, db, connection_string, connection, cursor,
                   handles, store, phase>>

MaskField ==
    \E field \in SchemaFields, fn \in MaskFns, up \in BOOLEAN :
        MongoMaskField(field, fn, up) \/ PgMaskField(field, fn, up)

\* The collections mask_field finds: field a a str (among them "*", a value
\* masked before, and the empty str), None, the int 0, or missing.

InitMask == ConnectedWith(TypedColls({"absent", "x", "y", "*", "", "null", "i0"}, {"absent", "k"}))

\* --------------------------------------- update_one, delete_one, find_one
\* Collection.find_one(query): the first match in natural order, or None.
NativeFindOne(coll, query) ==
    LET i == FirstMatch(coll, query)
    IN  IF i = 0 THEN <<>> ELSE <<coll[i]>>

\* The request each method sends, on the collection coll: the collection
\* afterwards, the count the result carries, the documents it returns.
\* update_one sends update_one(query, {'$set': update}), delete_one sends
\* delete_one(query), find_one sends find_one(query).
NativeOne(op, coll, query, update) ==
    CASE op = "update_one" ->
             LET r == NativeUpdateOne(coll, [filter |-> query, update |-> update])
             IN  [coll |-> r.coll, n |-> r.n, docs |-> <<>>]
      [] op = "delete_one" ->
             LET r == NativeDeleteOne(coll, [filter |-> query])
             IN  [coll |-> r.coll, n |-> r.n, docs |-> <<>>]
      [] op = "find_one" ->
             [coll |-> coll, n |-> 0, docs |-> NativeFindOne(coll, query)]

\* A method that sends one request and returns what it yields.
MongoOne(op, query, update, up) ==
    /\ kind = "mongodb"
    /\ \E reopen \in ReopenChoices :
       \E send \in {MongoSend("TypeError", reopen, up)} :
       \E coll \in {IF db.client = 0 THEN <<>> ELSE store[db.name]} :
       \E r \in {IF send.raised = "none" THEN NativeOne(op, coll, query, update)
                 ELSE [coll |-> coll, n |-> 0, docs |-> <<>>]} :
          /\ handles' = send.handles
          /\ store' = IF send.raised = "none" THEN [store EXCEPT ![db.name] = r.coll]
                      ELSE store
          /\ last' = [Call(op, up) EXCEPT
                         !.raised = send.raised, !.session = send.session,
                         !.ret = IF send.raised /= "none" THEN "None"
                                 ELSE IF op /= "find_one" THEN "bool"
                                 ELSE IF r.docs = <<>> THEN "None" ELSE "doc",
                         !.flag = r.n > 0, !.n = r.n, !.docs = r.docs,
                         !.filter = query, !.update = update, !.pre = coll,
                         !.effect = (r.coll /= coll)]
    /\ UNCHANGED <<created, scan, kind, client, db, connection_string, connection, cursor, phase>>

\* result = update_one(query, {'$set': update}); return result.modified_count > 0
MongoUpdateOne(query, update, up) == MongoOne("update_one", query, update, up)

\* result = delete_one(query); return result.deleted_count > 0
MongoDeleteOne(query, up) == MongoOne("delete_one", query, Empty, up)

\* return self.db[collection].find_one(query)
MongoFindOne(query, up) == MongoOne("find_one", query, Empty, up)

\* PostgreSQLAdapter.update_one, delete_one and find_one are "pass": they
\* return None and do nothing.
PgOne(op, query, up) ==
    /\ kind = "postgresql"
    /\ last' = [Call(op, up) EXCEPT !.filter = query]
    /\ UNCHANGED <<created, scan, kind, client, db, connection_string, connection, cursor,
                   handles, store, phase>>

\* The filters and the patch a caller passes: {} and {'a': 'x'} can match
\* many records, {'_id': 1} at most one.
WhereId(id) == [Empty EXCEPT !["_id"] = id]
Queries == {Empty, WhereX, WhereId(1)}
Patches == {SetY}

UpdateOne ==
    \E query \in Queries, update \in Patches, up \in BOOLEAN :
        MongoUpdateOne(query, update, up) \/ PgOne("update_one", query, up)

DeleteOne ==
    \E query \in Queries, up \in BOOLEAN :
        MongoDeleteOne(query, up) \/ PgOne("delete_one", query, up)

FindOne ==
    \E query \in Queries, up \in BOOLEAN :
        MongoFindOne(query, up) \/ PgOne("find_one", query, up)

\* The collections the "_one" methods find: field a is "x" or "y".
OneA == {"x", "y"}
OneB == {"absent", "k"}

InitOne == ConnectedWith(TypedColls(OneA, OneB))

\* ------------------- update_documents, count_documents, find_documents
\* Collection.update_many(query, {'$set': update}): every match is merged
\* with the update; modified_count counts the documents that changed.
NativeUpdateMany(coll, query, update) ==
    LET new == [i \in DOMAIN coll |->
                   IF Matches(coll[i], query) THEN SetFields(coll[i], update)
                   ELSE coll[i]]
    IN  [coll |-> new, n |-> Cardinality({i \in DOMAIN coll : new[i] /= coll[i]})]

\* Collection.count_documents(query)
NativeCount(coll, query) == Cardinality({i \in DOMAIN coll : Matches(coll[i], query)})

\* Collection.find(query): the matches in natural order.
NativeFind(coll, query) == SelectSeq(coll, LAMBDA d : Matches(d, query))

\* The optional query argument: None, or a filter.
NoQuery == [none |-> TRUE, q |-> Empty]
Some(q) == [none |-> FALSE, q |-> q]

\* if query is None: query = {}
QueryOrAll(query) == IF query.none THEN Empty ELSE query.q

\* result = update_many(query, {'$set': update}); return result.modified_count
MongoUpdateDocuments(query, update, up) ==
    /\ kind = "mongodb"
    /\ \E reopen \in ReopenChoices :
       \E send \in {MongoSend("TypeError", reopen, up)} :
       \E coll \in {IF db.client = 0 THEN <<>> ELSE store[db.name]} :
       \E r \in {IF send.raised = "none" THEN NativeUpdateMany(coll, query, update)
                 ELSE [coll |-> coll, n |-> 0]} :
          /\ handles' = send.handles
          /\ store' = IF send.raised = "none" THEN [store EXCEPT ![db.name] = r.coll]
                      ELSE store
          /\ last' = [Call("update_documents", up) EXCEPT
                         !.raised = send.raised, !.session = send.session,
                         !.ret = IF send.raised = "none" THEN "int" ELSE "None",
                         !.n = r.n, !.filter = query, !.update = update, !.pre = coll,
                         !.effect = (r.coll /= coll)]
    /\ UNCHANGED <<created, scan, kind, client, db, connection_string, connection,
                   cursor, phase>>

\* MongoDBAdapter.count_documents
MongoCountDocuments(query, up) ==
    /\ kind = "mongodb"
    /\ \E reopen \in ReopenChoices :
       \E send \in {MongoSend("TypeError", reopen, up)} :
       \E coll \in {IF db.client = 0 THEN <<>> ELSE store[db.name]} :
          /\ handles' = send.handles
          /\ last' = [Call("count_documents", up) EXCEPT
                         !.raised = send.raised, !.session = send.session,
                         !.ret = IF send.raised = "none" THEN "int" ELSE "None",
                         !.n = IF send.raised = "none"
                               THEN NativeCount(coll, QueryOrAll(query)) ELSE 0,
                         !.filter = QueryOrAll(query), !.none = query.none,
                         !.pre = coll]
    /\ UNCHANGED <<created, scan, kind, client, db, connection_string, connection,
                   cursor, store, phase>>

\* find(query).limit(limit) cut from the head before the skip is applied.
CursorLimitFirst(matches, limit, skip) ==
    LET cut == IF limit > 0 THEN SubSeq(matches, 1, Min(limit, Len(matches)))
               ELSE matches
    IN  SubSeq(cut, skip + 1, Len(cut))

\* list(cursor) for cursor = find(query).skip(skip), with .limit(limit) added
\* if limit > 0: the server skips, then limits.
CursorList(matches, limit, skip) ==
    LET rest == SubSeq(matches, skip + 1, Len(matches))
    IN  IF limit > 0 THEN SubSeq(rest, 1, Min(limit, Len(rest))) ELSE rest

\* MongoDBAdapter.find_documents.  Cursor.skip raises ValueError for a
\* negative skip, before anything is sent.
MongoFindDocuments(query, limit, skip, up) ==
    /\ kind = "mongodb"
    /\ \E reopen \in ReopenChoices :
       \E send \in {IF db.client /= 0 /\ skip < 0
                    THEN [raised |-> "ValueError", session |-> 0, handles |-> handles]
                    ELSE MongoSend("TypeError", reopen, up)} :
       \E coll \in {IF db.client = 0 THEN <<>> ELSE store[db.name]} :
          /\ handles' = send.handles
          /\ last' = [Call("find_documents", up) EXCEPT
                         !.raised = send.raised, !.session = send.session,
                         !.ret = IF send.raised = "none" THEN "list" ELSE "None",
                         !.docs = IF send.raised = "none"
                                  THEN CursorList(NativeFind(coll, QueryOrAll(query)),
                                                  limit, skip)
                                  ELSE <<>>,
                         !.filter = QueryOrAll(query), !.none = query.none,
                         !.limit = limit, !.skip = skip, !.pre = coll]
    /\ UNCHANGED <<created, scan, kind, client, db, connection_string, connection,
                   cursor, store, phase>>

\* PostgreSQLAdapter.update_documents, count_documents and find_documents are
\* "pass": they return None and do nothing.
PgMany(op, up) ==
    /\ kind = "postgresql"
    /\ last' = Call(op, up)
    /\ UNCHANGED <<created, scan, kind, client, db, connection_string, connection,
                   cursor, handles, store, phase>>

\* The optional queries, limits and skips a caller passes.
OptQueries == {NoQuery} \cup {Some(q) : q \in Queries}
MaxLimit == 2
MaxSkip == 2

UpdateDocuments ==
    \E query \in Queries, update \in Patches, up \in BOOLEAN :
        MongoUpdateDocuments(query, update, up) \/ PgMany("update_documents", up)

CountDocuments ==
    \E query \in OptQueries, up \in BOOLEAN :
        MongoCountDocuments(query, up) \/ PgMany("count_documents", up)

FindDocuments ==
    \E query \in OptQueries, limit \in (0 - 1) .. MaxLimit,
       skip \in (0 - 1) .. MaxSkip, up \in BOOLEAN :
        MongoFindDocuments(query, limit, skip, up) \/ PgMany("find_documents", up)

\* ------------------------------------------ insert_one, then find_one
\* The documents a caller inserts: without _id (the driver assigns one) or
\* with its own _id, which a document of the collection may have already.

InsertAny ==
    \E document \in {Doc(0, "x", "k"), Doc(0, "y", "absent"),
                     Doc(1, "x", "k"), Doc(3, "y", "k")},
       up \in BOOLEAN :
        MongoInsertOne(document, up) \/ PgInsertOne(document, up)

\* find_one({'_id': returned_id}) with the value insert_one returned.
FindReturned ==
    \E up \in BOOLEAN :
        MongoFindOne(WhereId(last.id), up) \/ PgOne("find_one", WhereId(last.id), up)

\* ----------------------------------------------------- create_collection
\* The collection names a caller uses; "data" is the collection the other
\* methods work on, whose documents are store[db.name].
CollNames == {"data", "logs"}

\* db.list_collection_names(): the collections created by name and every
\* collection that holds documents.
ListCollectionNames ==
    created \cup (IF db.client /= 0 /\ store[db.name] /= <<>> THEN {"data"} ELSE {})

\* db.create_collection(name) without the guard before it: the driver
\* rejects a name that exists.
CreateUnguarded(names, name) ==
    IF name \in names THEN [raised |-> "CollectionInvalid", create |-> FALSE]
    ELSE [raised |-> "none", create |-> TRUE]

\* if collection_name not in self.db.list_collection_names(): create it, with
\* the validator {'$jsonSchema': schema} if a schema is given.
CreateIfMissing(names, name) == [raised |-> "none", create |-> name \notin names]

\* MongoDBAdapter.create_collection.  The validator is an option of the
\* collection that no method of the adapter reads back.
MongoCreateCollection(collection_name, schema, up) ==
    /\ kind = "mongodb"
    /\ \E reopen \in ReopenChoices :
       \E send \in {MongoSend("AttributeError", reopen, up)} :
       \E r \in {IF send.raised = "none"
                 THEN CreateIfMissing(ListCollectionNames, collection_name)
                 ELSE [raised |-> send.raised, create |-> FALSE]} :
          /\ handles' = send.handles
          /\ created' = IF r.create THEN created \cup {collection_name} ELSE created
          /\ last' = [Call("create_collection", up) EXCEPT
                         !.raised = r.raised, !.session = send.session,
                         !.name = collection_name, !.flag = schema,
                         !.effect = r.create]
    /\ UNCHANGED <<scan, kind, client, db, connection_string, connection, cursor,
                   store, phase>>

\* PostgreSQLAdapter.create_collection is "pass".
PgCreateCollection(collection_name, schema, up) ==
    /\ kind = "postgresql"
    /\ last' = [Call("create_collection", up) EXCEPT
                   !.name = collection_name, !.flag = schema]
    /\ UNCHANGED <<created, scan, kind, client, db, connection_string, connection,
                   cursor, handles, store, phase>>

\* schema is None (or empty) or a JSON schema.
CreateCollection ==
    \E collection_name \in CollNames, schema \in BOOLEAN, up \in BOOLEAN :
        \/ MongoCreateCollection(collection_name, schema, up)
        \/ PgCreateCollection(collection_name, schema, up)

InitCreate == ConnectedHaving(TypedColls(OneA, OneB), SUBSET CollNames)

\* ------------------------------------------------------------ get_adapter
\* A database_type is a str, here the sequence of its characters.
ID_MONGODB == <<"m", "o", "n", "g", "o", "d", "b">>
ID_POSTGRESQL == <<"p", "o", "s", "t", "g", "r", "e", "s", "q", "l">>

DatabaseTypes ==
    {ID_MONGODB,
     <<"M", "o", "n", "g", "o", "D", "B">>,
     <<"M", "O", "N", "G", "O", "D", "B">>,
     ID_POSTGRESQL,
     <<"P", "o", "s", "t", "g", "r", "e", "S", "Q", "L">>,
     <<"m", "y", "s", "q", "l">>,
     <<"M", "y", "S", "Q", "L">>,
     <<"m", "o", "n", "g", "o">>,
     <<>>}

\* str.lower(), character by character.
UpperCase == <<"M", "O", "N", "G", "D", "B", "P", "S", "T", "R", "E", "Q", "L", "Y">>

LowerChar(c) ==
    IF \E i \in DOMAIN UpperCase : UpperCase[i] = c
    THEN <<"m", "o", "n", "g", "d", "b", "p", "s", "t", "r", "e", "q", "l", "y">>
             [CHOOSE i \in DOMAIN UpperCase : UpperCase[i] = c]
    ELSE c

Lower(str) == [i \in DOMAIN str |-> LowerChar(str[i])]

\* adapters.get(key): the registry maps 'mongodb' and 'postgresql' to their
\* classes; "None" is no entry.
AdaptersGet(key) ==
    IF key = ID_MONGODB THEN "mongodb"
    ELSE IF key = ID_POSTGRESQL THEN "postgresql"
    ELSE "None"

\* adapter_class = adapters.get(database_type.lower())
AdapterClass(database_type) == AdaptersGet(Lower(database_type))

\* get_adapter: ValueError for an identifier without entry, else
\* adapter_class(), whose __init__ sets every field None and opens nothing.
\* The adapter returned takes the place of the one the caller had.
GetAdapter ==
    \E database_type \in DatabaseTypes :
       \E adapter_class \in {AdapterClass(database_type)} :
          IF adapter_class = "None"
          THEN /\ last' = [Call("get_adapter", TRUE) EXCEPT
                              !.arg = database_type, !.raised = "ValueError"]
               /\ UNCHANGED <<created, scan, kind, client, db, connection_string,
                              connection, cursor, handles, store, phase>>
          ELSE /\ kind' = adapter_class
               /\ client' = 0
               /\ db' = NoDb
               /\ connection_string' = <<>>
               /\ connection' = 0
               /\ cursor' = 0
               /\ phase' = "new"
               /\ last' = [Call("get_adapter", TRUE) EXCEPT
                              !.arg = database_type, !.ret = "adapter"]
               /\ UNCHANGED <<created, scan, handles, store>>

\* The state before the first get_adapter call: no adapter.
InitFactory ==
    /\ kind = "none"
    /\ client = 0
    /\ db = NoDb
    /\ connection_string = <<>>
    /\ connection = 0
    /\ cursor = 0
    /\ handles = <<>>
    /\ store = [n \in DbNames |-> <<>>]
    /\ phase = "new"
    /\ created = {}
    /\ scan = NoScan
    /\ last = NoCall

\* --------------------------------------------------- validate_connection
\* try: <probe>; return True, "Connected ..." / except Exception as e:
\* return False, "... failed: ..."
ValidateResult(probeRaised) ==
    [raised |-> "none", ret |-> "tuple", flag |-> probeRaised = "none"]

MongoValidateConnection(up) ==
    /\ kind = "mongodb"
    /\ \E reopen \in ReopenChoices :
       \E probe \in {MongoSend("AttributeError", reopen, up)} :
       \E r \in {ValidateResult(probe.raised)} :
          /\ handles' = probe.handles
          /\ last' = [Call("validate_connection", up) EXCEPT
                         !.raised = r.raised, !.ret = r.ret, !.flag = r.flag,
                         !.session = probe.session,
                         !.effect = (probe.handles /= handles)]
    /\ UNCHANGED <<created, scan, kind, client, db, connection_string, connection,
                   cursor, store, phase>>

\* The probe is cursor.execute("SELECT version()") and cursor.fetchone()[0].
PgValidateConnection(up) ==
    /\ kind = "postgresql"
    /\ \E probe \in {PgExecute(up)} :
       \E r \in {ValidateResult(probe.raised)} :
          last' = [Call("validate_connection", up) EXCEPT
                      !.raised = r.raised, !.ret = r.ret, !.flag = r.flag,
                      !.session = probe.session]
    /\ UNCHANGED <<created, scan, kind, client, db, connection_string, connection,
                   cursor, handles, store, phase>>

ValidateConnection ==
    \E up \in BOOLEAN : MongoValidateConnection(up) \/ PgValidateConnection(up)

\* bulk_write with a batch of one operation.
BulkWriteSingle ==
    \E op \in BatchOps, up \in BOOLEAN :
        MongoBulkWrite(<<op>>, up) \/ PgBulkWrite(<<op>>, up)

\* ---------------------------------------------------- a second run
\* The program ends and is run again: the new process calls get_adapter and
\* connect as the first did and finds the database as it was left.  Its str
\* hashes, and with them the iteration order of its sets, are drawn anew.
\* "last" keeps what the last call of the first run returned.
NewRun ==
    /\ phase = "connected"
    /\ handles' = <<NewHandle(IF kind = "mongodb" THEN "none" ELSE "open")>>
    /\ client' = IF kind = "mongodb" THEN 1 ELSE 0
    /\ db' = IF kind = "mongodb" THEN [client |-> 1, name |-> db.name] ELSE NoDb
    /\ connection' = IF kind = "postgresql" THEN 1 ELSE 0
    /\ cursor' = IF kind = "postgresql" THEN 1 ELSE 0
    /\ last' = [last EXCEPT !.op = "new_run", !.again = FALSE]
    /\ UNCHANGED <<created, scan, kind, connection_string, store, phase>>

\* ------------------------------------- mask_field beside another writer
\* mask_field step by step.  MaskBegin is find() and the first fetch of the
\* for loop: the cursor's first batch holds every document of a collection of
\* this size, as it is at that moment.
MaskBegin(field, fn, up) ==
    /\ kind = "mongodb" /\ ~scan.active
    /\ \E reopen \in ReopenChoices :
       \E send \in {MongoSend("TypeError", reopen, up)} :
       \E coll \in {IF db.client = 0 THEN <<>> ELSE store[db.name]} :
          /\ handles' = send.handles
          /\ scan' = IF send.raised = "none"
                     THEN [NoScan EXCEPT !.active = TRUE, !.docs = coll, !.i = 1,
                                         !.field = field, !.fn = fn]
                     ELSE NoScan
          /\ last' = [Call("mask_field", up) EXCEPT
                         !.raised = send.raised, !.session = send.session,
                         !.ret = IF send.raised = "none" THEN "running" ELSE "None",
                         !.field = field, !.fn = fn, !.pre = coll]
    /\ UNCHANGED <<created, kind, client, db, connection_string, connection, cursor,
                   store, phase>>

\* One pass of the loop body, on the next document of the batch.
MaskStep ==
    /\ scan.active /\ scan.i <= Len(scan.docs)
    /\ \E doc \in {scan.docs[scan.i]} :
          IF scan.field \in Keys(doc) /\ Truthy(doc[scan.field])
          THEN \E m \in {MaskFn(scan.fn, doc[scan.field])} :
                  IF m.raised /= "none"
                  THEN /\ scan' = NoScan
                       /\ last' = [last EXCEPT !.raised = m.raised, !.ret = "None"]
                       /\ UNCHANGED store
                  ELSE \E coll \in {MaskUpdate(store[db.name], doc["_id"], scan.field,
                                               m.value)} :
                          /\ store' = [store EXCEPT ![db.name] = coll]
                          /\ scan' = [scan EXCEPT
                                         !.i = @ + 1, !.masked_count = @ + 1,
                                         !.changed = @ + (IF coll /= store[db.name]
                                                          THEN 1 ELSE 0)]
                          /\ last' = [last EXCEPT !.effect = @ \/ coll /= store[db.name]]
          ELSE /\ scan' = [scan EXCEPT !.i = @ + 1]
               /\ UNCHANGED <<store, last>>
    /\ UNCHANGED <<created, kind, client, db, connection_string, connection, cursor,
                   handles, phase>>

\* The batch is used up: return masked_count.  "updated" notes how many of
\* the update_one calls changed a document, "flag" whether another client
\* wrote during the scan.
MaskEnd ==
    /\ scan.active /\ scan.i > Len(scan.docs)
    /\ scan' = NoScan
    /\ last' = [last EXCEPT !.ret = "int", !.n = scan.masked_count,
                            !.updated = scan.changed, !.flag = scan.writes > 0]
    /\ UNCHANGED <<created, kind, client, db, connection_string, connection, cursor,
                   handles, store, phase>>

\* Another client of the database writes while the scan runs: it deletes a
\* document or sets its field a.
MaxWrites == 1

OtherWriter ==
    /\ scan.active /\ scan.writes < MaxWrites
    /\ \E i \in DOMAIN store[db.name], delete \in BOOLEAN :
          store' = [store EXCEPT ![db.name] =
                       IF delete THEN RemoveAt(@, i) ELSE [@ EXCEPT ![i]["a"] = "y"]]
    /\ scan' = [scan EXCEPT !.writes = @ + 1]
    /\ UNCHANGED <<created, kind, client, db, connection_string, connection, cursor,
                   handles, phase, last>>

MaskFieldBegin ==
    \E field \in SchemaFields, fn \in MaskFns, up \in BOOLEAN :
        MaskBegin(field, fn, up) \/ PgMaskField(field, fn, up)

\* The collections the scan finds: field a a non-empty or an empty str, or
\* missing.

InitScan == ConnectedWith(TypedColls({"absent", "x", ""}, {"k"}))

\* ------------------------------------------------------- specifications
Next == Connect \/ Disconnect \/ HealthCheck \/ InsertOne

\* The lifecycle of one adapter.
Spec == Init /\ [][Next]_vars

\* One bulk_write call, the first call after connect.  What the call does
\* depends on the collection it finds and on the batch only, and the initial
\* condition draws every collection.
NextBulk == last.op = "connect" /\ BulkWrite

\* A bulk_write call on a connected adapter.
SpecBulk == ConnectedWith(Collections) /\ [][NextBulk]_vars

NextSchema == last.op = "connect" /\ GetSchema

\* A get_schema call on a connected adapter.
SpecSchema == InitSchema /\ [][NextSchema]_vars

NextMask == last.op = "connect" /\ MaskField

\* A mask_field call on a connected adapter.
SpecMask == InitMask /\ [][NextMask]_vars

NextOne == last.op = "connect" /\ (UpdateOne \/ DeleteOne \/ FindOne \/ InsertOne)

\* One call of a "_one" method on a connected adapter.
SpecOne == InitOne /\ [][NextOne]_vars

NextCrud ==
    last.op = "connect" /\ (UpdateOne \/ UpdateDocuments \/ CountDocuments \/ FindDocuments)

\* One update or query call on a connected adapter.
SpecCrud == InitOne /\ [][NextCrud]_vars

NextRoundTrip ==
    \/ last.op = "connect" /\ InsertAny
    \/ last.op = "insert_one" /\ last.raised = "none" /\ FindReturned

\* insert_one on a connected adapter and find_one on the id it returned.
SpecRoundTrip == InitOne /\ [][NextRoundTrip]_vars

NextCreate == last.op \in {"connect", "create_collection"} /\ CreateCollection

\* create_collection calls on a connected adapter.
SpecCreate == InitCreate /\ [][NextCreate]_vars

NextErrors == last.op = "connect" /\ (BulkWriteSingle \/ ValidateConnection \/ HealthCheck)

\* One call of a method that meets an error or an input it does not handle.
SpecErrors == InitOne /\ [][NextErrors]_vars

NextScan ==
    \/ last.op = "connect" /\ MaskFieldBegin
    \/ MaskStep
    \/ MaskEnd
    \/ OtherWriter

\* One mask_field call on a connected adapter, another client writing to
\* the collection while it runs.
SpecScan == InitScan /\ [][NextScan]_vars

NextSchemaTwice ==
    \/ last.op = "connect" /\ GetSchema
    \/ last.op = "get_schema" /\ NewRun
    \/ last.op = "new_run" /\ GetSchema

\* get_schema called in two runs of the program on the same database, the
\* collection unchanged in between.
SpecSchemaTwice == InitSchema /\ [][NextSchemaTwice]_vars

NextFactory == GetAdapter \/ Connect \/ Disconnect

\* get_adapter calls, and the adapters they return being connected and
\* disconnected.
SpecFactory == InitFactory /\ [][NextFactory]_vars

\* ================================================================ claims
TestDb == DbName(URI_DB)

\* C1: disconnect() completes without raising in every lifecycle state, and a
\* disconnect() that directly follows another one changes no session's state.
C1_DisconnectNeverRaises ==
    last.op = "disconnect" =>
        /\ last.raised = "none"
        /\ last.again => ~last.effect

\* C1 witness: a second disconnect in a row on an adapter that had connected,
\* having issued the native close a second time.
C1_Witness ==
    /\ last.op = "disconnect" /\ last.again /\ last.phase = "disconnected"
    /\ \E h \in DOMAIN handles : handles[h].closes = 2

\* C2: every session a connect created is closed exactly once: the native
\* close is never issued twice on one handle, and after disconnect no handle is
\* left open.
C2_ClosedExactlyOnce ==
    /\ \A h \in DOMAIN handles : handles[h].closes <= 1
    /\ last.op = "disconnect" => \A h \in DOMAIN handles : ~handles[h].open

\* C3: connect on a connected adapter is rejected with InvalidStateError and
\* creates or assigns no new session.
C3_ConnectTwiceRejected ==
    (last.op = "connect" /\ last.phase = "connected") =>
        (last.raised = "InvalidStateError" /\ ~last.effect)

\* C4: a CRUD or bulk call made before a successful connect or after
\* disconnect is not executed on any session.
C4_NoBackendOutsideSession ==
    (last.op \in {"insert_one", "bulk_write"}
        /\ last.phase \in {"new", "connect_failed", "disconnected"}) =>
        last.session = 0

\* C5: health_check never raises; it returns a boolean, true exactly when the
\* probe ran on the server.
C5_HealthCheckNeverRaises ==
    last.op = "health_check" =>
        /\ last.raised = "none"
        /\ last.ret = "bool"
        /\ last.flag <=> (last.session /= 0)

\* C5 witness: a health_check on a connected adapter whose probe failed.
C5_Witness ==
    /\ last.op = "health_check" /\ last.phase = "connected" /\ ~last.up
    /\ ~last.flag /\ last.raised = "none"

\* The connection strings the contract calls malformed: a scheme the backend
\* does not accept, or no database name after "host/".
NoDatabaseName(cs) == Len(cs) < 6 \/ cs[5] /= "/" \/ cs[6] = "?"

Malformed(cs) ==
    \/ NoDatabaseName(cs)
    \/ (kind = "mongodb" /\ ~MongoClientAccepts(cs))
    \/ (kind = "postgresql" /\ ~PgAccepts(cs))

\* C6: MongoDBAdapter.connect with a malformed connection string, or while the
\* host is unreachable, fails with ConnectionError (and so does not return
\* normally).
C6_ConnectFailsWithConnectionError ==
    (kind = "mongodb" /\ last.op = "connect" /\ (Malformed(last.arg) \/ ~last.up)) =>
        last.raised = "ConnectionError"

\* A bulk_write of MongoDBAdapter that returned normally.
BulkOk == last.op = "bulk_write" /\ kind = "mongodb" /\ last.raised = "none"

\* The requests applied one after the other, each as the server applies it.
RECURSIVE InOrder(_, _)
InOrder(coll, reqs) ==
    IF reqs = <<>> THEN coll
    ELSE InOrder(NativeRequest(coll, Head(reqs)).coll, Tail(reqs))

\* C7 (as claimed): a batch takes effect as all its inserts, then all its
\* updates, then all its deletes.
C7_PartitionedOrder ==
    BulkOk => store[TestDb] = InOrder(last.pre, PartitionedOps(last.batch))

\* C7 (amended): a batch takes effect in the order it was submitted.
C7_SubmittedOrder ==
    BulkOk => store[TestDb] = InOrder(last.pre, Requests(last.batch))

\* C7 witness: [Delete(f), Insert(d)] with d matching f, on an empty
\* collection, ends with d present.
C7_Witness ==
    /\ BulkOk
    /\ last.batch = <<DeleteOp(WhereX), InsertOp(DocX(1))>>
    /\ last.pre = <<>>
    /\ store[TestDb] = <<DocX(1)>>

\* C8: a bulk_write that returns gives counts >= 0 that sum to at most the
\* length of the batch.
C8_CountsBounded ==
    (last.op = "bulk_write" /\ last.raised = "none") =>
        /\ last.ret = "counts"
        /\ last.inserted >= 0 /\ last.updated >= 0 /\ last.deleted >= 0
        /\ last.inserted + last.updated + last.deleted <= Len(last.batch)

\* C9: when the server fails part of a batch, the caller gets the error
\* together with the counts of what was committed before it.
C9_PartialResultReturned ==
    (last.op = "bulk_write" /\ last.raised = "BulkWriteError") =>
        /\ last.ret = "counts"
        /\ store[TestDb] /= last.pre => last.inserted + last.updated + last.deleted > 0

HasKey(operations, key) == SelectSeq(operations, LAMBDA op : key \in op.keys)

\* C10: a batch of i inserts, u updates and d deletes that succeeds returns
\* inserted = i, updated <= u, deleted <= d; the collection grows by
\* inserted - deleted, and an inserted document that no later delete of the
\* batch follows is in the collection.
C10_BulkCounts ==
    BulkOk =>
        /\ last.inserted = Len(HasKey(last.batch, "insert_one"))
        /\ last.updated <= Len(HasKey(last.batch, "update_one"))
        /\ last.deleted <= Len(HasKey(last.batch, "delete_one"))
        /\ Len(store[TestDb]) = Len(last.pre) + last.inserted - last.deleted
        /\ \A i \in DOMAIN last.batch :
             ("insert_one" \in last.batch[i].keys
                 /\ \A j \in DOMAIN last.batch :
                      j > i => "delete_one" \notin last.batch[j].keys)
             => last.batch[i].doc["_id"] \in Ids(store[TestDb])

\* C10 witness: 3 inserts, 1 update and 1 delete, all of which took effect.
C10_Witness ==
    /\ BulkOk
    /\ Len(last.batch) = 5
    /\ last.inserted = 3 /\ last.updated = 1 /\ last.deleted = 1

\* -------------------------------------------------- claims on get_schema
\* A get_schema call of the MongoDB adapter that returned.
SchemaOk == last.op = "get_schema" /\ kind = "mongodb" /\ last.raised = "none"

\* The records of the sample that have field k.
Having(k) == {i \in DOMAIN last.docs : last.docs[i][k] /= Absent(k)}

\* The type tag the specification gives a value (none to a null).
TagOf(v) ==
    CASE PyClass(v) = "bool" -> {"boolean"}
      [] PyClass(v) = "int" -> {"integer"}
      [] PyClass(v) = "float" -> {"float"}
      [] PyClass(v) = "str" -> {"string"}
      [] PyClass(v) = "dict" -> {"object"}
      [] PyClass(v) = "list" -> {"array"}
      [] PyClass(v) = "ObjectId" -> {"identifier"}
      [] PyClass(v) = "datetime" -> {"date"}
      [] OTHER -> {}

TagsSeen(k) == UNION {TagOf(last.docs[i][k]) : i \in Having(k)}

\* C11: a field seen with more than one type tag in the sample is reported
\* with type unknown, never with one of the observed types.
C11_MixedIsUnknown ==
    SchemaOk =>
        \A k \in SchemaFields :
            Cardinality(TagsSeen(k)) > 1 => last.schema[k].type = "unknown"

\* C12: get_schema examines at most sample_size records for every sample_size,
\* 0 and negative ones included, and never the whole of a collection that
\* holds more than sample_size records.
C12_SampleBounded ==
    SchemaOk =>
        LET bound == IF last.size > 0 THEN last.size ELSE 0
        IN  /\ last.n <= bound
            /\ Len(last.pre) > bound => last.n < Len(last.pre)

\* C13: on every backend, get_schema on a collection without records returns
\* a DocumentSchema with an empty field mapping: no error, no missing result.
C13_EmptyCollectionEmptySchema ==
    (last.op = "get_schema" /\ last.up /\ store[TestDb] = <<>>) =>
        /\ last.raised = "none"
        /\ last.ret = "schema"
        /\ last.schema = NoSchema

\* C14: a field that every sampled record has with an integer value is
\* reported with type integer and nullable false.
C14_IntegerEverywhere ==
    SchemaOk =>
        \A k \in SchemaFields :
            (last.docs /= <<>> /\ \A i \in DOMAIN last.docs : PyClass(last.docs[i][k]) = "int")
                => last.schema[k] = [type |-> "integer", nullable |-> FALSE]

\* C14 witness: a sample of two records, both with the integer 7 in field a,
\* reported as integer.
C14_Witness ==
    /\ SchemaOk
    /\ Len(last.docs) = 2
    /\ \A i \in DOMAIN last.docs : last.docs[i]["a"] = "i7"
    /\ last.schema["a"].type = "integer"

\* C15: a reported field is nullable exactly if at least one sampled record
\* lacks it, whatever its types in the other records.
C15_NullableIffAbsentSomewhere ==
    SchemaOk =>
        \A k \in SchemaFields :
            last.schema[k].type /= "none" =>
                (last.schema[k].nullable <=> Having(k) /= DOMAIN last.docs)

\* C15 witness: field a is missing from the first record of the sample and
\* present in the last, and is reported nullable; field b is in both records
\* and is reported not nullable.
C15_Witness ==
    /\ SchemaOk
    /\ Len(last.docs) = 2
    /\ Having("a") = {2} /\ last.schema["a"].nullable
    /\ Having("b") = {1, 2} /\ ~last.schema["b"].nullable

\* The fixed set of type tags of a FieldSchema.
TagSet ==
    {"string", "integer", "float", "boolean", "date", "object", "array", "identifier",
     "unknown"}

\* C16: every reported type is in the fixed tag set, and a field whose sampled
\* values all have one tag is reported with that tag (a boolean as boolean, a
\* date as date, an object id as identifier).
C16_TypeInTagSet ==
    SchemaOk =>
        \A k \in SchemaFields :
            /\ last.schema[k].type /= "none" => last.schema[k].type \in TagSet
            /\ \A t \in TagSet :
                 (TagsSeen(k) = {t} /\ \A i \in Having(k) : TagOf(last.docs[i][k]) = {t})
                     => last.schema[k].type = t

\* -------------------------------------------------- claims on mask_field
\* A mask_field call of the MongoDB adapter that reached the server.
MaskCall == last.op = "mask_field" /\ kind = "mongodb" /\ last.session /= 0

\* Record i of the collection had the field with a value that is neither
\* null nor empty.
NonEmptyAt(i) == last.pre[i][last.field] \notin {"absent", "null", "", "{}", "[]"}

\* What mask_fn makes of the value record i had.
MaskedAt(i) == MaskFn(last.fn, last.pre[i][last.field])

\* C17: mask_field returns the number of records it mutated: exactly the
\* records that have the field with a non-null, non-empty value are masked and
\* counted, the others are neither changed nor counted.
C17_CountIsMutated ==
    (MaskCall /\ last.raised = "none") =>
        /\ Len(store[TestDb]) = Len(last.pre)
        /\ last.n = Cardinality({i \in DOMAIN last.pre : NonEmptyAt(i)})
        /\ last.n = Cardinality({i \in DOMAIN last.pre : store[TestDb][i] /= last.pre[i]})
        /\ \A i \in DOMAIN last.pre :
             IF NonEmptyAt(i)
             THEN store[TestDb][i][last.field] = MaskedAt(i).value
             ELSE store[TestDb][i] = last.pre[i]

\* The first record on which mask_fn raises, 0 if there is none.
FirstFailure ==
    LET bad == {i \in DOMAIN last.pre : NonEmptyAt(i) /\ MaskedAt(i).raised /= "none"}
    IN  IF bad = {} THEN 0 ELSE CHOOSE i \in bad : \A j \in bad : i <= j

\* C18: when mask_fn raises on a record, mask_field fails with
\* ValidationError, no later record is written, the records masked before stay
\* masked, and the caller gets the count of the records masked before.
C18_MaskFnFailure ==
    (MaskCall /\ FirstFailure /= 0) =>
        /\ last.raised = "ValidationError"
        /\ last.ret = "int"
        /\ last.n = Cardinality({i \in 1 .. FirstFailure - 1 : NonEmptyAt(i)})
        /\ \A i \in DOMAIN last.pre :
             IF i < FirstFailure /\ NonEmptyAt(i)
             THEN store[TestDb][i][last.field] = MaskedAt(i).value
             ELSE store[TestDb][i] = last.pre[i]

\* C19: mask_field changes nothing but the named field of the records it
\* masks: the number of records, every other field of every record, and every
\* record whose field is missing or empty stay as they were.
C19_MaskFrame ==
    MaskCall =>
        /\ Len(store[TestDb]) = Len(last.pre)
        /\ \A i \in DOMAIN last.pre :
             /\ \A k \in Fields \ {last.field} : store[TestDb][i][k] = last.pre[i][k]
             /\ ~NonEmptyAt(i) => store[TestDb][i] = last.pre[i]

\* C19 witness: field a of the first record was masked, its field b and its
\* _id kept, and the second record, which has no field a, is as it was.
C19_Witness ==
    /\ MaskCall /\ last.raised = "none" /\ last.field = "a" /\ last.n = 1
    /\ Len(last.pre) = 2
    /\ last.pre[1]["a"] = "x" /\ store[TestDb][1] = Doc(1, "*", "k")
    /\ last.pre[2] = Doc(2, "absent", "k") /\ store[TestDb][2] = last.pre[2]

\* ---------------------------------------------- claims on "_one" methods
OneOps == {"update_one", "delete_one", "find_one", "insert_one"}

\* The _ids whose record differs between the collections c and d: changed,
\* removed or added.
Touched(c, d) ==
    {id \in Ids(c) \cup Ids(d) :
        {c[i] : i \in {j \in DOMAIN c : c[j]["_id"] = id}}
            /= {d[i] : i \in {j \in DOMAIN d : d[j]["_id"] = id}}}

\* C20: a call of update_one, delete_one, find_one or insert_one touches at
\* most one record and returns at most one, however many its filter matches:
\* delete_one removes at most one record, update_one changes at most one and
\* removes none, find_one changes none.
C20_OneAtMost ==
    [][last'.op \in OneOps =>
          /\ Cardinality(Touched(store[TestDb], store'[TestDb])) <= 1
          /\ Len(last'.docs) <= 1
          /\ last'.op = "delete_one" =>
                 Len(store'[TestDb]) \in {Len(store[TestDb]) - 1, Len(store[TestDb])}
          /\ last'.op = "update_one" => Len(store'[TestDb]) = Len(store[TestDb])
          /\ last'.op = "find_one" => store'[TestDb] = store[TestDb]
          /\ last'.op = "insert_one" =>
                 Len(store'[TestDb]) \in {Len(store[TestDb]), Len(store[TestDb]) + 1}]_vars

\* The records of the collection the call found that its filter matches.
Matched == {i \in DOMAIN last.pre : Matches(last.pre[i], last.filter)}

\* C20 witness: delete_one with a filter that matches two records removed the
\* first of them and left the second.
C20_Witness ==
    /\ last.op = "delete_one" /\ kind = "mongodb" /\ last.flag
    /\ Matched = {1, 2}
    /\ store[TestDb] = <<last.pre[2]>>

\* ------------------------------------------- claims on updates and queries
\* An update_one call of the MongoDB adapter that returned, its filter
\* matching at least one record.
UpdateOneMatched ==
    /\ last.op = "update_one" /\ kind = "mongodb" /\ last.raised = "none"
    /\ Matched /= {}

\* C21 as stated: update_one with a filter that matches at least one record
\* mutates exactly one record, reports success, and leaves the record count
\* the same.
C21_ExactlyOneMutated ==
    UpdateOneMatched =>
        /\ Cardinality(Touched(last.pre, store[TestDb])) = 1
        /\ last.flag
        /\ NativeCount(store[TestDb], Empty) = NativeCount(last.pre, Empty)

\* The record i merged with the update of the call, field by field.
Merged(i) ==
    [k \in Fields |-> IF last.update[k] /= Absent(k) THEN last.update[k] ELSE last.pre[i][k]]

\* The first record the filter of the call matches.
FirstMatched == CHOOSE i \in Matched : \A j \in Matched : i <= j

\* C21 amended: update_one with a filter that matches at least one record
\* leaves the record count the same and every record but the first match as
\* it was; the first match is mutated and True returned if it differs from
\* the update in a named field, and else no record is mutated and False
\* returned.
C21_FirstMatchOnly ==
    UpdateOneMatched =>
        /\ NativeCount(store[TestDb], Empty) = NativeCount(last.pre, Empty)
        /\ Len(store[TestDb]) = Len(last.pre)
        /\ \A i \in DOMAIN last.pre : i /= FirstMatched => store[TestDb][i] = last.pre[i]
        /\ store[TestDb][FirstMatched] = Merged(FirstMatched)
        /\ last.flag <=> Merged(FirstMatched) /= last.pre[FirstMatched]
        /\ Cardinality(Touched(last.pre, store[TestDb])) = IF last.flag THEN 1 ELSE 0

\* C21 witness: the filter matched two records that both differ from the
\* update; the first was mutated, the second was not, True was returned.
C21_Witness ==
    /\ UpdateOneMatched /\ last.flag
    /\ Matched = {1, 2}
    /\ last.pre[2]["a"] = "x"
    /\ store[TestDb][1] /= last.pre[1] /\ store[TestDb][2] = last.pre[2]

\* An update_documents or update_one call of the MongoDB adapter that
\* returned.
UpdateOk ==
    /\ last.op \in {"update_documents", "update_one"}
    /\ kind = "mongodb" /\ last.raised = "none"

\* C22: update_documents and update_one merge the update into the records
\* they update: a named field takes the new value, every other field keeps
\* its value, and no record is removed or added.
C22_MergeNotReplace ==
    UpdateOk =>
        /\ Len(store[TestDb]) = Len(last.pre)
        /\ \A i \in DOMAIN last.pre :
             /\ store[TestDb][i] \in {last.pre[i], Merged(i)}
             /\ (last.op = "update_documents" /\ i \in Matched)
                    => store[TestDb][i] = Merged(i)
             /\ i \notin Matched => store[TestDb][i] = last.pre[i]

\* C22 witness: update_documents gave field a of two records the new value
\* and both kept their field b.
C22_Witness ==
    /\ UpdateOk /\ last.op = "update_documents" /\ last.n = 2
    /\ \A i \in {1, 2} :
         /\ last.pre[i]["a"] = "x" /\ last.pre[i]["b"] = "k"
         /\ store[TestDb][i]["a"] = "y" /\ store[TestDb][i]["b"] = "k"

\* The records of the collection that match the query of the call, in order.
MatchingSeq == SelectSeq(last.pre, LAMBDA d : Matches(d, last.filter))

\* C23: find_documents returns the matching records without the first skip
\* of them: all of the rest for limit 0, the first limit of the rest for a
\* limit above 0; a query of None matches every record; the collection is
\* not changed.
C23_FindSkipLimit ==
    (last.op = "find_documents" /\ kind = "mongodb" /\ last.raised = "none") =>
        /\ store[TestDb] = last.pre
        /\ last.none => MatchingSeq = last.pre
        /\ \A j \in DOMAIN last.docs : last.docs[j] = MatchingSeq[last.skip + j]
        /\ last.limit = 0 =>
               Len(last.docs) = IF Len(MatchingSeq) > last.skip
                                THEN Len(MatchingSeq) - last.skip ELSE 0
        /\ last.limit > 0 =>
               Len(last.docs) = IF Len(MatchingSeq) - last.skip > last.limit
                                THEN last.limit
                                ELSE IF Len(MatchingSeq) > last.skip
                                THEN Len(MatchingSeq) - last.skip ELSE 0

\* C23 witness: two records match, skip 1 and limit 1 return the second.
C23_Witness ==
    /\ last.op = "find_documents" /\ kind = "mongodb" /\ last.raised = "none"
    /\ Len(MatchingSeq) = 2 /\ last.skip = 1 /\ last.limit = 1
    /\ last.docs = <<MatchingSeq[2]>>

\* ------------------------------------------------ claims on the round trip
\* C24: an insert_one(doc) that returns raises the record count by exactly 1,
\* and find_one on the id it returned yields a record equal to doc in every
\* field other than a backend-assigned _id.
C24_InsertFindRoundTrip ==
    [][/\ (last'.op = "insert_one" /\ last'.up /\ last'.raised = "none")
            => Len(store'[TestDb]) = Len(store[TestDb]) + 1
       /\ (last.op = "insert_one" /\ last'.op = "find_one" /\ last'.up)
            => /\ last'.raised = "none"
               /\ Len(last'.docs) = 1
               /\ \A k \in Fields :
                    (k /= "_id" \/ last.doc[k] /= 0) => last'.docs[1][k] = last.doc[k]]_vars

\* ---------------------------------------------- claims on create_collection
\* C25: create_collection on a name that exists raises nothing and leaves the
\* set of collections and the documents of the collection as they were; a
\* second call with the same name changes nothing the first left.
C25_CreateExistingNoOp ==
    [][(last'.op = "create_collection" /\ kind = "mongodb" /\ last'.up) =>
          /\ last'.name \in ListCollectionNames =>
                 /\ last'.raised = "none"
                 /\ ListCollectionNames' = ListCollectionNames
                 /\ store' = store
          /\ (last.op = "create_collection" /\ last.raised = "none"
                 /\ last.name = last'.name) =>
                 /\ last'.raised = "none"
                 /\ ListCollectionNames' = ListCollectionNames
                 /\ store' = store]_vars

\* C25 witness: a second create_collection in a row on "data", which exists
\* and holds a document, returned without creating anything.
C25_Witness ==
    /\ last.op = "create_collection" /\ kind = "mongodb" /\ last.again /\ last.up
    /\ last.name = "data" /\ last.raised = "none" /\ ~last.effect
    /\ "data" \in created /\ store[TestDb] /= <<>>

\* ------------------------------------------------- claims on a failed connect
\* C29: a connect call that fails creates and retains no session, and on an
\* adapter that had not connected before it leaves every field None: no
\* client, database handle or connection string, no connection or cursor, and
\* no open session for a later disconnect to close.
C29_FailedConnectRetainsNothing ==
    (last.op = "connect" /\ last.raised /= "none") =>
        /\ ~last.effect
        /\ last.phase = "new" =>
               /\ client = 0 /\ db = NoDb /\ connection_string = <<>>
               /\ connection = 0 /\ cursor = 0
               /\ \A h \in DOMAIN handles : ~handles[h].open

\* ------------------------------------------------------ claims on get_adapter
\* C26: get_adapter fails with UnsupportedBackendError for an identifier
\* whose lower-cased form is not registered; for a registered identifier, in
\* any letter case, it returns an adapter of the registered class in the
\* unconnected state with every field None, and opens no session.
C26_GetAdapter ==
    last.op = "get_adapter" =>
        IF AdaptersGet(Lower(last.arg)) = "None"
        THEN last.raised = "UnsupportedBackendError" /\ last.ret = "None"
        ELSE /\ last.raised = "none" /\ last.ret = "adapter"
             /\ kind = AdaptersGet(Lower(last.arg))
             /\ phase = "new"
             /\ client = 0 /\ db = NoDb /\ connection_string = <<>>
             /\ connection = 0 /\ cursor = 0
             /\ last.session = 0

\* ----------------------------------------------- claims on swallowed errors
\* C27: no method other than health_check returns normally after an error or
\* an input it could not process: validate_connection whose probe failed,
\* bulk_write given an operation that is none of insert, update and delete,
\* and a bulk_write of an insert that inserted nothing all raise.
C27_NothingSwallowed ==
    (last.op \in {"validate_connection", "bulk_write"}) =>
        /\ (last.op = "bulk_write" /\ \E i \in DOMAIN last.batch : last.batch[i] = OtherOp)
               => last.raised /= "none"
        /\ (last.op = "bulk_write" /\ \E i \in DOMAIN last.batch :
                                          "insert_one" \in last.batch[i].keys)
               => (last.raised /= "none" \/ last.inserted > 0)
        /\ (last.op = "validate_connection" /\ ~last.up) => last.raised /= "none"

\* --------------------------------------------- claims on repeated get_schema
\* C30: get_schema is deterministic: two runs that sample the same records
\* return the same type and the same nullable flag for every field.
C30_SchemaDeterministic ==
    [][(/\ last.op = "new_run" /\ last'.op = "get_schema" /\ kind = "mongodb"
        /\ last.raised = "none" /\ last'.raised = "none"
        /\ last.docs /= <<>> /\ last'.docs = last.docs)
          => last'.schema = last.schema]_vars

\* --------------------------------- claims on mask_field beside another writer
\* The document has the field with a value that is neither null nor empty.
NonEmptyIn(doc, field) == doc[field] \notin {"absent", "null", "", "{}", "[]"}

\* The documents that differ between two states of the collection, by _id.
Written == Touched(store[TestDb], store'[TestDb])

\* C28: while another client writes to the collection, every write of
\* mask_field goes to the record it has just read as non-empty and carries
\* mask_fn of the value read, and the count mask_field returns is the number
\* of records its writes changed.
C28_MaskBesideWriter ==
    [][/\ (scan.active /\ scan'.writes = scan.writes /\ store' /= store) =>
             /\ Written = {scan.docs[scan.i]["_id"]}
             /\ NonEmptyIn(scan.docs[scan.i], scan.field)
             /\ \A j \in DOMAIN store'[TestDb] :
                  store'[TestDb][j]["_id"] \in Written =>
                      store'[TestDb][j][scan.field]
                          = MaskFn(scan.fn, scan.docs[scan.i][scan.field]).value
       /\ (scan.active /\ scan.writes > 0 /\ last'.ret = "int") =>
             last'.n = scan.changed]_vars

====
